---- MODULE Spec2Model ----
(***************************************************************************)
(* Model of audiobook-repack (src/main.go): the natural comparator         *)
(* naturalLess, the stable sort sortFileRecords, the discovery walker      *)
(* searchRecords and the archive pipeline processor.process/processDir.    *)
(*                                                                         *)
(* Strings are sequences of Unicode code points (48..57 are '0'..'9',      *)
(* 97.. are 'a'.., 46 is '.', 47 is '/', 95 is '_', 1632..1641 are the     *)
(* Arabic-Indic digits).  Go compares strings byte-wise over UTF-8, which  *)
(* is the code-point order, and every index naturalLess compares after a   *)
(* successful strconv.Atoi spans ASCII only, so rune positions stand for   *)
(* byte positions.                                                         *)
(***************************************************************************)
EXTENDS Integers, Sequences, FiniteSets, TLC

VARIABLES
    \* comparator and sorter runs
    strA, strB, strC,   \* the strings handed to naturalLess
    out,                \* what naturalLess returned
    records,            \* the list handed to sortFileRecords
    sorted,             \* what sortFileRecords left
    \* one run of processor.process
    fsys,               \* the file tree under each directory name
    fileGlobs,          \* the pattern set
    dirs,               \* the directory arguments
    di,                 \* index of the directory being processed
    search,             \* what the last searchRecords call returned
    searched,           \* the directory indices searchRecords ran on, in order
    found,              \* the sorted records of the current directory
    ri,                 \* index of the current record
    archive,            \* the entries of the zip writer
    opened,             \* the source files opened so far
    err,                \* the error process returned
    pc                  \* where process is

natVars == <<strA, strB, strC, out, records, sorted>>

runVars == <<fsys, fileGlobs, dirs, di, search, searched, found, ri, archive, opened, err, pc>>

vars == <<natVars, runVars>>

----------------------------------------------------------------------------
(* Bounds of the explored inputs.                                          *)

\* longest exhaustively enumerated comparator input
MaxLen == 3
\* longest input of the three-string comparator runs
MaxLenT == 2
\* longest record list handed to sortFileRecords
MaxRecs == 3
\* most directory arguments of a run
MaxDirs == 2

----------------------------------------------------------------------------
(* String helpers (Go string slicing and comparison).                      *)

Take(s, n) == SubSeq(s, 1, n)

Drop(s, n) == SubSeq(s, n + 1, Len(s))

Min(a, b) == IF a < b THEN a ELSE b

\* index (1-based) of the first position where s and t differ, 0 when one
\* is a prefix of the other
FirstDiff(s, t) ==
    LET D == {i \in 1..Min(Len(s), Len(t)) : s[i] # t[i]}
    IN IF D = {} THEN 0 ELSE CHOOSE i \in D : \A j \in D : i <= j

\* Go's s < t on strings
StrLess(s, t) ==
    LET d == FirstDiff(s, t)
    IN IF d = 0 THEN Len(s) < Len(t) ELSE s[d] < t[d]

\* unicode.IsDigit, on the code points the model uses: the ASCII digits and
\* the Arabic-Indic digits U+0660..U+0669 (both of category Nd)
IsDigit(ch) == ch \in 48..57 \/ ch \in 1632..1641

isNonDigit(ch) == ~IsDigit(ch)

\* strings.IndexFunc with f = unicode.IsDigit: 0-based index, -1 when none
IndexDigit(s) ==
    LET D == {i \in 1..Len(s) : IsDigit(s[i])}
    IN IF D = {} THEN -1 ELSE (CHOOSE i \in D : \A j \in D : i <= j) - 1

\* strings.IndexFunc with f = isNonDigit
IndexNonDigit(s) ==
    LET D == {i \in 1..Len(s) : isNonDigit(s[i])}
    IN IF D = {} THEN -1 ELSE (CHOOSE i \in D : \A j \in D : i <= j) - 1

----------------------------------------------------------------------------
(* strconv.Atoi on a run of unicode digits.  The value is kept as its      *)
(* decimal digits without leading zeros (the empty sequence is zero), so   *)
(* 64-bit values are exact.                                                *)

RECURSIVE StripZeros(_)
StripZeros(s) ==
    IF s # <<>> /\ s[1] = 48 THEN StripZeros(Tail(s)) ELSE s

\* math.MaxInt64 = 9223372036854775807, the largest value Atoi returns
MaxIntDigits ==
    <<57, 50, 50, 51, 51, 55, 50, 48, 51, 54, 56, 53, 52, 55, 55, 53, 56, 48, 55>>

\* x < y on values kept as stripped digit sequences
IntLess(x, y) ==
    \/ Len(x) < Len(y)
    \/ Len(x) = Len(y) /\ StrLess(x, y)

\* Atoi fails (ErrSyntax) on any character outside '0'..'9' and (ErrRange)
\* on a value above MaxInt64
Atoi(s) ==
    LET v == StripZeros(s)
    IN [ok  |-> (\A i \in 1..Len(s) : s[i] \in 48..57) /\ ~IntLess(MaxIntDigits, v),
        val |-> v]

----------------------------------------------------------------------------
(* naturalLess: one iteration of its for loop, then the loop.              *)

Ret(b) == [kind |-> "return", less |-> b]

Panic == [kind |-> "panic"]

Continue(a, b) == [kind |-> "continue", strA |-> a, strB |-> b]

\* noDigitsInA had it compared the digit-free string with the other's
\* non-digit prefix
noDigitsInA_prefix(a, b, posB) ==
    IF posB = -1 THEN Ret(StrLess(a, b))
    ELSE IF a = Take(b, posB) THEN Ret(FALSE)
    ELSE Ret(StrLess(a, Take(b, posB)))

\* lines 250-256: no digits in A
noDigitsInA(a, b, posB) ==
    IF posB = -1 THEN Ret(StrLess(a, b)) ELSE Ret(FALSE)

\* lines 288-298: both runs converted
compareRuns(a, b, posA, posB, valA, valB) ==
    IF valA # valB THEN Ret(IntLess(valA, valB))
    ELSE IF posA # posB THEN Ret(posA < posB)
    ELSE IF posA >= Len(a) \/ posB >= Len(b) THEN Ret(TRUE)
    ELSE Continue(Drop(a, posA), Drop(b, posB))

\* lines 264-287: a and b start at their first digit
digitRuns(a, b) ==
    LET iA == IndexNonDigit(a)
        iB == IndexNonDigit(b)
        posA == IF iA = -1 THEN Len(a) ELSE iA
        posB == IF iB = -1 THEN Len(b) ELSE iB
        numA == Atoi(Take(a, posA))
        numB == Atoi(Take(b, posB))
    IN IF ~numA.ok THEN Panic
       ELSE IF ~numB.ok THEN Panic
       ELSE compareRuns(a, b, posA, posB, numA.val, numB.val)

\* lines 246-299: the loop body
loopBody(a, b) ==
    LET posA == IndexDigit(a)
        posB == IndexDigit(b)
    IN IF posA = -1 THEN noDigitsInA(a, b, posB)
       ELSE IF posB = -1 THEN Ret(TRUE)
       ELSE IF Take(a, posA) # Take(b, posB)
            THEN Ret(StrLess(Take(a, posA), Take(b, posB)))
       ELSE digitRuns(Drop(a, posA), Drop(b, posB))

\* "true", "false", or "panic" when a digit run does not convert
RECURSIVE naturalLess(_, _)
naturalLess(a, b) ==
    LET r == loopBody(a, b)
    IN IF r.kind = "panic" THEN "panic"
       ELSE IF r.kind = "return" THEN (IF r.less THEN "true" ELSE "false")
       ELSE naturalLess(r.strA, r.strB)

----------------------------------------------------------------------------
(* File records and sortFileRecords.                                       *)

\* flattenPath: every separator '/' becomes '_'
flattenPath(p) == [i \in 1..Len(p) |-> IF p[i] = 47 THEN 95 ELSE p[i]]

\* filepath.Base: trailing separators dropped, then the last component;
\* "." for the empty path, "/" for a path of separators only
RECURSIVE Base(_)
Base(d) ==
    IF d = <<>> THEN <<46>>
    ELSE IF d[Len(d)] = 47
         THEN (IF Len(d) = 1 THEN <<47>> ELSE Base(Take(d, Len(d) - 1)))
    ELSE LET S == {i \in 1..Len(d) : d[i] = 47}
         IN IF S = {} THEN d
            ELSE Drop(d, CHOOSE i \in S : \A j \in S : j <= i)

\* filepath.Clean leaves a single component (what Base returns) as it is
sanitizeDirPrefix(dir) ==
    LET b == Base(dir)
    IN IF b = <<46>> THEN <<>> ELSE Append(b, 95)

\* filepath.Join(dir, path) for a clean relative dir and a path fs.WalkDir
\* reports (clean, relative, never "." for a file)
Join(dir, path) == IF dir = <<46>> THEN path ELSE dir \o <<47>> \o path

\* lines 115-120: the record of a matched file
fileRecord(dir, path) ==
    [name |-> sanitizeDirPrefix(dir) \o flattenPath(path), path |-> Join(dir, path)]

\* lines 138-146: the comparison handed to slices.SortStableFunc
cmp(a, b) ==
    IF a = b THEN [panic |-> FALSE, v |-> 0]
    ELSE LET r == naturalLess(a.name, b.name)
         IN IF r = "panic" THEN [panic |-> TRUE, v |-> 0]
            ELSE IF r = "true" THEN [panic |-> FALSE, v |-> -1]
            ELSE [panic |-> FALSE, v |-> 1]

Swap(data, i, j) == [data EXCEPT ![i] = data[j], ![j] = data[i]]

\* slices.SortStableFunc is an insertion sort for fewer than 20 elements;
\* its inner loop: for j > a && cmp(data[j], data[j-1]) < 0 { swap; j-- }
RECURSIVE insertBack(_, _)
insertBack(st, j) ==
    IF st.panic \/ j <= 1 THEN st
    ELSE LET c == cmp(st.data[j], st.data[j - 1])
         IN IF c.panic THEN [st EXCEPT !.panic = TRUE]
            ELSE IF c.v < 0
                 THEN insertBack([st EXCEPT !.data = Swap(st.data, j, j - 1)], j - 1)
            ELSE st

\* its outer loop: for i := a + 1; i < b; i++
RECURSIVE insertionSort(_, _)
insertionSort(st, i) ==
    IF st.panic \/ i > Len(st.data) THEN st
    ELSE insertionSort(insertBack(st, i), i + 1)

\* sortFileRecords: the sorted list, or a panic out of naturalLess
sortFileRecords(recs) == insertionSort([data |-> recs, panic |-> FALSE], 2)

----------------------------------------------------------------------------
(* Comparator and sorter inputs.                                           *)

\* '0', '1', 'a', 'b'
Alphabet == {48, 49, 97, 98}

\* '1', 'a', 'b'
AlphabetT == {49, 97, 98}

RECURSIVE StringsOver(_, _)
StringsOver(alpha, n) ==
    IF n = 0 THEN {<<>>}
    ELSE LET S == StringsOver(alpha, n - 1)
         IN S \cup {Append(s, c) : s \in {t \in S : Len(t) = n - 1}, c \in alpha}

Rep(c, n) == [i \in 1..n |-> c]

\* digit runs around the 64-bit limit: MaxInt64, MaxInt64 + 1, runs of nines,
\* and a zero-padded one
LongRuns ==
    { MaxIntDigits,
      [MaxIntDigits EXCEPT ![19] = 56],
      Rep(57, 18), Rep(57, 19), Rep(57, 20),
      Rep(48, 19) \o <<49>> }

\* strings with the Arabic-Indic digit three (U+0663)
UnicodeRuns ==
    { <<1635>>, <<97, 1635>>, <<49, 1635>>, <<1635, 97>>, <<49, 97, 1635>> }

Inputs ==
    StringsOver(Alphabet, MaxLen) \cup LongRuns \cup {<<97>> \o r : r \in LongRuns}
        \cup UnicodeRuns

InputsT == StringsOver(AlphabetT, MaxLenT)

\* files of the directory ".": two pairs that flatten to one name each, and
\* the three files of the README's ordering
Pool ==
    { fileRecord(<<46>>, <<97, 47, 49>>),                               \* a/1
      fileRecord(<<46>>, <<97, 95, 49>>),                               \* a_1
      fileRecord(<<46>>, <<97, 47, 98>>),                               \* a/b
      fileRecord(<<46>>, <<97, 95, 98>>),                               \* a_b
      fileRecord(<<46>>, <<102, 105, 108, 101, 50, 46, 109, 112, 51>>),     \* file2.mp3
      fileRecord(<<46>>, <<102, 105, 108, 101, 49, 48, 46, 109, 112, 51>>), \* file10.mp3
      fileRecord(<<46>>, <<102, 105, 108, 101, 49, 46, 109, 112, 51>>) }    \* file1.mp3

\* lists of distinct files, as a walk discovers them
RecordLists ==
    {l \in UNION {[1..n -> Pool] : n \in 1..MaxRecs} :
        \A i, j \in 1..Len(l) : i # j => l[i] # l[j]}

NameAt(l, i) == IF i <= Len(l) THEN l[i].name ELSE <<>>

NoOut == [done |-> FALSE]

\* process returned no error: the directory named, the operation named, and
\* the error wrapped
NoErr == [dir |-> <<>>, op |-> "", wraps |-> ""]

\* process not started
RunIdle ==
    /\ fsys = <<>> /\ fileGlobs = <<>> /\ dirs = <<>> /\ di = 0
    /\ search = NoOut /\ searched = <<>> /\ found = <<>> /\ ri = 0
    /\ archive = <<>> /\ opened = <<>> /\ err = NoErr /\ pc = "idle"

InitNatural ==
    /\ RunIdle
    /\ out = NoOut
    /\ sorted = NoOut
    /\ \/ /\ strA \in Inputs
          /\ strB \in Inputs
          /\ strC = <<>>
          /\ records = <<>>
       \/ /\ strA \in InputsT
          /\ strB \in InputsT
          /\ strC \in InputsT
          /\ records = <<>>
       \/ /\ records \in RecordLists
          /\ strA = NameAt(records, 1)
          /\ strB = NameAt(records, 2)
          /\ strC = NameAt(records, 3)

\* naturalLess applied to the strings
Compare ==
    /\ ~out.done
    /\ out' = [done |-> TRUE,
               ab |-> naturalLess(strA, strB),
               ba |-> naturalLess(strB, strA),
               aa |-> naturalLess(strA, strA),
               bc |-> naturalLess(strB, strC),
               ac |-> naturalLess(strA, strC)]
    /\ UNCHANGED <<strA, strB, strC, records, sorted, runVars>>

\* sortFileRecords applied to the list (processDir never sorts an empty one)
Sort ==
    /\ records # <<>>
    /\ ~sorted.done
    /\ LET r == sortFileRecords(records)
       IN sorted' = [done |-> TRUE, panic |-> r.panic, list |-> r.data]
    /\ UNCHANGED <<strA, strB, strC, records, out, runVars>>

NextNatural == Compare \/ Sort

SpecNatural == InitNatural /\ [][NextNatural]_vars

----------------------------------------------------------------------------
(* searchRecords: the walk, the glob matcher, the callback.                *)

\* filepath.Match for patterns of literals, '*' (42) and '?' (63): neither
\* wildcard matches the separator
RECURSIVE Match(_, _)
Match(pattern, name) ==
    IF pattern = <<>> THEN name = <<>>
    ELSE IF pattern[1] = 42
         THEN \/ Match(Tail(pattern), name)
              \/ name # <<>> /\ name[1] # 47 /\ Match(pattern, Tail(name))
    ELSE IF name = <<>> THEN FALSE
    ELSE IF pattern[1] = 63 THEN name[1] # 47 /\ Match(Tail(pattern), Tail(name))
    ELSE pattern[1] = name[1] /\ Match(Tail(pattern), Tail(name))

\* fs.WalkDir visits a directory's entries sorted by name and descends in
\* place: the order of the paths with the separator below every character
WalkKey(path) == [i \in 1..Len(path) |-> IF path[i] = 47 THEN 0 ELSE path[i]]

RECURSIVE walkOrder(_)
walkOrder(tree) ==
    IF tree = {} THEN <<>>
    ELSE LET first == CHOOSE e \in tree :
                        \A f \in tree \ {e} : StrLess(WalkKey(e.path), WalkKey(f.path))
         IN <<first>> \o walkOrder(tree \ {first})

\* matchLoop without its return: every matching pattern appends a record
RECURSIVE matchLoop_noReturn(_, _, _, _)
matchLoop_noReturn(dir, path, globs, i) ==
    IF i > Len(globs) THEN <<>>
    ELSE (IF Match(globs[i], path) THEN <<fileRecord(dir, path)>> ELSE <<>>)
             \o matchLoop_noReturn(dir, path, globs, i + 1)

\* lines 112-124: the first matching pattern appends one record and returns
RECURSIVE matchLoop(_, _, _, _)
matchLoop(dir, path, globs, i) ==
    IF i > Len(globs) THEN <<>>
    ELSE IF Match(globs[i], path) THEN <<fileRecord(dir, path)>>
    ELSE matchLoop(dir, path, globs, i + 1)

\* lines 107-125: the callback of the walk, for an entry read without error
callback(dir, e, globs) ==
    IF e.kind = "dir" THEN <<>> ELSE matchLoop(dir, e.path, globs, 1)

RECURSIVE collect(_, _, _)
collect(dir, entries, globs) ==
    IF entries = <<>> THEN <<>>
    ELSE callback(dir, Head(entries), globs) \o collect(dir, Tail(entries), globs)

\* lines 103-135, for a walk that meets no error
searchRecords(dir, tree, globs) ==
    LET recs == collect(dir, walkOrder(tree), globs)
    IN IF recs = <<>> THEN [done |-> TRUE, err |-> "no files found", found |-> <<>>]
       ELSE [done |-> TRUE, err |-> "", found |-> recs]

----------------------------------------------------------------------------
(* File trees, pattern sets and directory arguments of a run.              *)

Entry(path, kind) == [path |-> path, kind |-> kind]

\* the files a tree may hold: 2.mp3 (a file or a symbolic link), 10.mp3, the
\* directory d with d/1.mp3, the directory e.mp3, n.txt, and a file whose name
\* starts with the Arabic-Indic digit three
Trees ==
    { a \cup b \cup c \cup d \cup e \cup f :
        a \in { {}, {Entry(<<50, 46, 109, 112, 51>>, "file")},
                {Entry(<<50, 46, 109, 112, 51>>, "symlink")} },
        b \in { {}, {Entry(<<49, 48, 46, 109, 112, 51>>, "file")} },
        c \in { {}, {Entry(<<100>>, "dir")},
                {Entry(<<100>>, "dir"), Entry(<<100, 47, 49, 46, 109, 112, 51>>, "file")} },
        d \in { {}, {Entry(<<101, 46, 109, 112, 51>>, "dir")} },
        e \in { {}, {Entry(<<110, 46, 116, 120, 116>>, "file")} },
        f \in { {}, {Entry(<<1635, 46, 109, 112, 51>>, "file")} } }

\* the trees of the second directory: empty, 2.mp3, 2.mp3 with 10.mp3
TreesB ==
    { {},
      {Entry(<<50, 46, 109, 112, 51>>, "file")},
      {Entry(<<50, 46, 109, 112, 51>>, "file"), Entry(<<49, 48, 46, 109, 112, 51>>, "file")} }

\* the directory arguments "." and "b"
DirNames == {<<46>>, <<98>>}

FsStates == {[n \in DirNames |-> IF n = <<46>> THEN t ELSE u] : t \in Trees, u \in TreesB}

\* line 35: the built-in "*.mp3", then what -g appended: nothing, "*", "d/*"
GlobSets ==
    { <<<<42, 46, 109, 112, 51>>>>,
      <<<<42, 46, 109, 112, 51>>, <<42>>>>,
      <<<<42, 46, 109, 112, 51>>, <<100, 47, 42>>>> }

\* line 73: at least one directory
DirLists == UNION {[1..n -> DirNames] : n \in 1..MaxDirs}

----------------------------------------------------------------------------
(* processor.process and processDir, one step per call that can fail.      *)

NatIdle ==
    /\ strA = <<>> /\ strB = <<>> /\ strC = <<>>
    /\ out = NoOut /\ records = <<>> /\ sorted = NoOut

Init ==
    /\ NatIdle
    /\ fsys \in FsStates
    /\ fileGlobs \in GlobSets
    /\ dirs \in DirLists
    /\ di = 1
    /\ search = NoOut
    /\ searched = <<>>
    /\ found = <<>>
    /\ ri = 0
    /\ archive = <<>>
    /\ opened = <<>>
    /\ err = NoErr
    /\ pc = "dir"

\* Fail had process noted the error and gone on with the next directory
Fail_skipDir(op, cause) ==
    /\ err' = [dir |-> dirs[di], op |-> op, wraps |-> cause]
    /\ di' = IF di < Len(dirs) THEN di + 1 ELSE di
    /\ pc' = IF di < Len(dirs) THEN "dir" ELSE "failed"
    /\ UNCHANGED <<found, ri>>

\* lines 162-164 with 175-177, 196-198, 200-202: the error is wrapped and
\* returned, which ends process
Fail(op, cause) ==
    /\ err' = [dir |-> dirs[di], op |-> op, wraps |-> cause]
    /\ pc' = "failed"
    /\ UNCHANGED <<di, found, ri>>

\* SearchOk without the call of sortFileRecords: the order of the walk
SearchOk_unsorted ==
    /\ pc = "dir"
    /\ LET r == searchRecords(dirs[di], fsys[dirs[di]], fileGlobs)
       IN /\ search' = r
          /\ searched' = Append(searched, di)
          /\ IF r.err # "" THEN Fail("searching files", "errNoFilesFound")
             ELSE /\ found' = r.found
                  /\ ri' = 1
                  /\ pc' = "create"
                  /\ UNCHANGED <<di, err>>
    /\ UNCHANGED <<natVars, fsys, fileGlobs, dirs, archive, opened>>

\* lines 173-179: searchRecords completes its walk; then sortFileRecords
SearchOk ==
    /\ pc = "dir"
    /\ LET r == searchRecords(dirs[di], fsys[dirs[di]], fileGlobs)
           s == sortFileRecords(r.found)
       IN /\ search' = r
          /\ searched' = Append(searched, di)
          /\ IF r.err # "" THEN Fail("searching files", "errNoFilesFound")
             ELSE IF s.panic
                  THEN pc' = "panicked" /\ UNCHANGED <<di, found, ri, err>>
             ELSE /\ found' = s.data
                  /\ ri' = 1
                  /\ pc' = "create"
                  /\ UNCHANGED <<di, err>>
    /\ UNCHANGED <<natVars, fsys, fileGlobs, dirs, archive, opened>>

\* lines 126-128: the walk meets an error (a directory that cannot be read)
SearchWalkFails ==
    /\ pc = "dir"
    /\ search' = [done |-> FALSE, err |-> "walking dir", found |-> <<>>]
    /\ searched' = Append(searched, di)
    /\ Fail("searching files: walking dir", "errWalk")
    /\ UNCHANGED <<natVars, fsys, fileGlobs, dirs, archive, opened>>

\* CreateHeaderOk without its entry: nothing is added before the file is opened
CreateHeaderOk_noEntry ==
    /\ pc = "create"
    /\ pc' = "open"
    /\ UNCHANGED <<natVars, fsys, fileGlobs, dirs, di, search, searched, found, ri,
                   archive, opened, err>>

\* lines 192-195: archive.CreateHeader adds the entry of the current record
CreateHeaderOk ==
    /\ pc = "create"
    /\ archive' = Append(archive, [name |-> found[ri].name, comment |-> found[ri].path,
                                   dir |-> di, written |-> FALSE])
    /\ pc' = "open"
    /\ UNCHANGED <<natVars, fsys, fileGlobs, dirs, di, search, searched, found, ri, opened, err>>

\* lines 196-198
CreateHeaderFails ==
    /\ pc = "create"
    /\ Fail("creating zip file record", "errCreate")
    /\ UNCHANGED <<natVars, fsys, fileGlobs, dirs, search, searched, archive, opened>>

\* the tree entry a record of the current directory was made from
EntryOf(rec) ==
    CHOOSE e \in fsys[dirs[di]] : Join(dirs[di], e.path) = rec.path

\* lines 210-221: copyFileTo opens the source file (O_NOFOLLOW) and stats it
OpenOk ==
    /\ pc = "open"
    /\ EntryOf(found[ri]).kind # "symlink"
    /\ opened' = Append(opened, [dir |-> di, path |-> found[ri].path])
    /\ pc' = "copy"
    /\ UNCHANGED <<natVars, fsys, fileGlobs, dirs, di, search, searched, found, ri, archive, err>>

\* lines 210-213: a symbolic link never opens, any file may fail to
OpenFails ==
    /\ pc = "open"
    /\ Fail("writing file to archive: unable to open file", "errFile")
    /\ UNCHANGED <<natVars, fsys, fileGlobs, dirs, search, searched, archive, opened>>

\* lines 216-219: the file opened and file.Stat fails; the error returned
\* wraps errFile, which is nil here
StatFails ==
    /\ pc = "open"
    /\ EntryOf(found[ri]).kind # "symlink"
    /\ opened' = Append(opened, [dir |-> di, path |-> found[ri].path])
    /\ Fail("writing file to archive: unable to open file", "nil")
    /\ UNCHANGED <<natVars, fsys, fileGlobs, dirs, search, searched, archive>>

\* lines 231-238 and 203-206, 161-169: the bytes are copied; then the next
\* record, the next directory, or the end of process
CopyOk ==
    /\ pc = "copy"
    /\ archive' = [archive EXCEPT ![Len(archive)].written = TRUE]
    /\ IF ri < Len(found)
       THEN ri' = ri + 1 /\ pc' = "create" /\ UNCHANGED <<di, found>>
       ELSE /\ found' = <<>>
            /\ ri' = 0
            /\ IF di < Len(dirs)
               THEN di' = di + 1 /\ pc' = "dir"
               ELSE di' = di /\ pc' = "done"
    /\ UNCHANGED <<natVars, fsys, fileGlobs, dirs, search, searched, opened, err>>

\* lines 232-234
CopyFails ==
    /\ pc = "copy"
    /\ Fail("writing file to archive: unable to write file", "errCopy")
    /\ UNCHANGED <<natVars, fsys, fileGlobs, dirs, search, searched, archive, opened>>

Next ==
    \/ SearchOk
    \/ SearchWalkFails
    \/ CreateHeaderOk
    \/ CreateHeaderFails
    \/ OpenOk
    \/ OpenFails
    \/ StatFails
    \/ CopyOk
    \/ CopyFails

Spec == Init /\ [][Next]_vars

----------------------------------------------------------------------------
(* The comparator's and the sorter's properties.                           *)

Max(a, b) == IF a < b THEN b ELSE a

HasDigit(s) == \E i \in 1..Len(s) : IsDigit(s[i])

\* the characters before the first digit
NonDigitPrefix(s) ==
    LET E == {n \in 0..Len(s) : \A i \in 1..n : ~IsDigit(s[i])}
    IN Take(s, CHOOSE n \in E : \A m \in E : m <= n)

\* the maximal digit run at the first digit
FirstRun(s) ==
    LET t == Drop(s, Len(NonDigitPrefix(s)))
        E == {n \in 0..Len(t) : \A i \in 1..n : IsDigit(t[i])}
    IN Take(t, CHOOSE n \in E : \A m \in E : m <= n)

PadTo(r, w) == Rep(48, w - Len(r)) \o r

\* r1 < r2 as decimal numerals: zero-padded to one width, then digit by digit
NumLT(r1, r2) ==
    LET w == Max(Len(r1), Len(r2)) IN StrLess(PadTo(r1, w), PadTo(r2, w))

NumEQ(r1, r2) ==
    LET w == Max(Len(r1), Len(r2)) IN PadTo(r1, w) = PadTo(r2, w)

\* a numeral of ASCII digits whose value fits a 64-bit int
Converts(r) == (\A i \in 1..Len(r) : r[i] \in 48..57) /\ ~NumLT(MaxIntDigits, r)

Names(l) == [i \in 1..Len(l) |-> l[i].name]

File2 == <<102, 105, 108, 101, 50, 46, 109, 112, 51>>

File10 == <<102, 105, 108, 101, 49, 48, 46, 109, 112, 51>>

File1 == <<102, 105, 108, 101, 49, 46, 109, 112, 51>>

\* a decimal numeral (ASCII digits only), which has an integer value
Numeral(r) == \A i \in 1..Len(r) : r[i] \in 48..57

\* the digit runs of the two strings are ordered by value, then by length
RunsOrdered ==
    /\ NumLT(FirstRun(strA), FirstRun(strB)) => out.ab = "true"
    /\ ( NumEQ(FirstRun(strA), FirstRun(strB))
         /\ Len(FirstRun(strA)) < Len(FirstRun(strB)) )
       => (out.ab = "true" /\ out.ba = "false")

\* the README's three files are sorted into file1, file2, file10
ReadmeSorted ==
    (sorted.done /\ Names(records) = <<File2, File10, File1>>)
    => (~sorted.panic /\ Names(sorted.list) = <<File1, File2, File10>>)

\* C1: when the non-digit prefixes before the first digit runs are equal,
\* naturalLess(a, b) is true if a's run has the smaller integer value; with
\* equal values and different run lengths the shorter run is less and the
\* longer one is not.  Sorting file2.mp3, file10.mp3, file1.mp3 yields
\* file1.mp3, file2.mp3, file10.mp3.
C1_DigitRunsByValueThenLength ==
    /\ ( /\ out.done
         /\ HasDigit(strA) /\ HasDigit(strB)
         /\ NonDigitPrefix(strA) = NonDigitPrefix(strB)
         /\ Numeral(FirstRun(strA)) /\ Numeral(FirstRun(strB)) )
       => RunsOrdered
    /\ ReadmeSorted

\* the same for the digit runs strconv.Atoi converts (values up to MaxInt64);
\* this one holds
DigitRunsByValueThenLengthWhenConverted ==
    /\ ( /\ out.done
         /\ HasDigit(strA) /\ HasDigit(strB)
         /\ NonDigitPrefix(strA) = NonDigitPrefix(strB)
         /\ Converts(FirstRun(strA)) /\ Converts(FirstRun(strB)) )
       => RunsOrdered
    /\ ReadmeSorted

\* the README's three files, compared and sorted
ReadmeWitness ==
    /\ out.done /\ sorted.done
    /\ Names(records) = <<File2, File10, File1>>
    /\ out.ab = "true" /\ out.ba = "false"
    /\ Names(sorted.list) = <<File1, File2, File10>>

\* C2: naturalLess is transitive: naturalLess(a, b) and naturalLess(b, c)
\* imply naturalLess(a, c).
C2_Transitive ==
    (out.done /\ out.ab = "true" /\ out.bc = "true") => out.ac = "true"

\* C3: naturalLess is a strict order: naturalLess(a, b) and naturalLess(b, a)
\* are never both true, and naturalLess(a, a) is false.
C3_StrictOrder ==
    out.done => (~(out.ab = "true" /\ out.ba = "true") /\ out.aa # "true")

PosIn(l, r) == CHOOSE i \in 1..Len(l) : l[i] = r

\* C4: sortFileRecords keeps two records with equal names and different paths
\* in their discovery order.
C4_SortKeepsTies ==
    (sorted.done /\ ~sorted.panic)
    => \A i, j \in 1..Len(records) :
         (i < j /\ records[i].name = records[j].name)
         => PosIn(sorted.list, records[i]) < PosIn(sorted.list, records[j])

\* every digit run of p is one strconv.Atoi converts
RunsConvert(p) ==
    \A i, j \in 1..Len(p) :
        (i <= j /\ \A m \in i..j : IsDigit(p[m])) => Converts(SubSeq(p, i, j))

\* the loop of naturalLess(strA, strB) reaches the suffixes after k characters:
\* at once, or past a common part that ends in a digit run both strings leave
ReachesSuffixes(k) ==
    \/ k = 0
    \/ /\ 0 < k /\ k < Len(strA) /\ k < Len(strB)
       /\ Take(strA, k) = Take(strB, k)
       /\ RunsConvert(Take(strA, k))
       /\ IsDigit(strA[k]) /\ ~IsDigit(strA[k + 1]) /\ ~IsDigit(strB[k + 1])

\* the remaining suffix of strA has no digit and that of strB has one
OnlyBHasDigit(k) ==
    ReachesSuffixes(k) /\ ~HasDigit(Drop(strA, k)) /\ HasDigit(Drop(strB, k))

Bool(b) == IF b THEN "true" ELSE "false"

\* C5 as stated: when exactly one of the (remaining) strings has a digit, the
\* digit-free one is the greater if it equals the other's non-digit prefix, and
\* otherwise the plain comparison of the digit-free string with that prefix
\* decides.
C5_PrefixDecides ==
    out.done =>
      \A k \in 0..Min(Len(strA), Len(strB)) :
        OnlyBHasDigit(k) =>
          LET n == Drop(strA, k)
              p == NonDigitPrefix(Drop(strB, k))
          IN IF n = p THEN out.ab = "false" /\ out.ba = "true"
             ELSE out.ab = Bool(StrLess(n, p)) /\ out.ba = Bool(StrLess(p, n))

\* C5 amended: when exactly one of the (remaining) strings has a digit, the
\* digit-free one is never less and the one with the digit always is, whatever
\* the non-digit prefixes.
C5_DigitFreeIsGreater ==
    out.done =>
      \A k \in 0..Min(Len(strA), Len(strB)) :
        OnlyBHasDigit(k) => (out.ab = "false" /\ out.ba = "true")

\* "a" against "b1", and "1a" against "1b1" past the common run
C5_Witness ==
    /\ out.done
    /\ \/ strA = <<97>> /\ strB = <<98, 49>>
       \/ strA = <<49, 97>> /\ strB = <<49, 98, 49>>
    /\ out.ab = "false" /\ out.ba = "true"

\* C10: naturalLess returns a boolean for every pair of strings.
C10_NeverPanics ==
    out.done => (out.ab # "panic" /\ out.ba # "panic" /\ out.aa # "panic")

----------------------------------------------------------------------------
(* The pipeline's properties.                                              *)

RECURSIVE Concat(_)
Concat(ls) == IF ls = <<>> THEN <<>> ELSE Head(ls) \o Concat(Tail(ls))

RECURSIVE Sum(_)
Sum(ns) == IF ns = <<>> THEN 0 ELSE Head(ns) + Sum(Tail(ns))

MatchesAny(path) == \E i \in 1..Len(fileGlobs) : Match(fileGlobs[i], path)

\* the entries of directory argument i that are no directory and match a pattern
Matched(i) == {e \in fsys[dirs[i]] : e.kind # "dir" /\ MatchesAny(e.path)}

\* the sorted record list of directory argument i
SortedList(i) ==
    sortFileRecords(searchRecords(dirs[i], fsys[dirs[i]], fileGlobs).found).data

ArchiveRecords == [k \in 1..Len(archive) |-> [name |-> archive[k].name, path |-> archive[k].comment]]

\* C6: after a successful run the archive's entries are the concatenation, in
\* argument order, of each directory's sorted record list: entries of an
\* earlier directory precede those of a later one, and there are as many
\* entries as matched files.
C6_ArchiveIsConcatenation ==
    pc = "done" =>
      /\ ArchiveRecords = Concat([i \in 1..Len(dirs) |-> SortedList(i)])
      /\ \A k, l \in 1..Len(archive) : k < l => archive[k].dir <= archive[l].dir
      /\ \A k \in 1..Len(archive) : archive[k].written
      /\ Len(archive) = Sum([i \in 1..Len(dirs) |-> Cardinality(Matched(i))])

\* a run over "b" then ".", whose last entry's name sorts before the first's
C6_Witness ==
    /\ pc = "done"
    /\ dirs = <<<<98>>, <<46>>>>
    /\ Len(archive) >= 4
    /\ naturalLess(archive[Len(archive)].name, archive[1].name) = "true"

EntriesOfDir(i) == {k \in 1..Len(archive) : archive[k].dir = i}

SearchedDir == dirs[searched[Len(searched)]]

\* the number of records of the last search made from entry e
RecordsOf(e) ==
    Cardinality({k \in 1..Len(search.found) :
                     search.found[k].path = Join(SearchedDir, e.path)})

\* C8 as stated: searchRecords returns one record for every regular file whose
\* path matches a pattern, none for any other entry, and "no files found"
\* exactly when there is no record.
C8_SearchExact ==
    search.done =>
      LET Regular == {e \in fsys[SearchedDir] : e.kind = "file" /\ MatchesAny(e.path)}
      IN /\ \A e \in Regular : RecordsOf(e) = 1
         /\ \A e \in fsys[SearchedDir] \ Regular : RecordsOf(e) = 0
         /\ (search.err = "no files found") <=> (Regular = {})
         /\ ~(search.err = "" /\ search.found = <<>>)

\* C8 amended: a walk that completes returns one record for every entry that
\* is no directory (a regular file, a symbolic link) and whose path matches a
\* pattern, none for a directory or an entry matching no pattern, and "no
\* files found" exactly when there is no such entry.
C8_SearchMatchesNonDirs ==
    search.done =>
      LET Hits == {e \in fsys[SearchedDir] : e.kind # "dir" /\ MatchesAny(e.path)}
      IN /\ \A e \in Hits : search.err = "" => RecordsOf(e) = 1
         /\ \A e \in fsys[SearchedDir] \ Hits : RecordsOf(e) = 0
         /\ Len(search.found) = IF search.err = "" THEN Cardinality(Hits) ELSE 0
         /\ (search.err = "no files found") <=> (Hits = {})
         /\ ~(search.err = "" /\ search.found = <<>>)

\* "*.mp3" and "*" over a tree with the link 2.mp3, the directory e.mp3 and
\* the file n.txt
C8_Witness ==
    /\ search.done
    /\ Len(fileGlobs) = 2 /\ fileGlobs[2] = <<42>>
    /\ Entry(<<50, 46, 109, 112, 51>>, "symlink") \in fsys[SearchedDir]
    /\ Entry(<<101, 46, 109, 112, 51>>, "dir") \in fsys[SearchedDir]
    /\ Entry(<<110, 46, 116, 120, 116>>, "file") \in fsys[SearchedDir]
    /\ Entry(<<100, 47, 49, 46, 109, 112, 51>>, "file") \in fsys[SearchedDir]
    /\ Len(search.found) = 2

\* C9 as stated: every archive entry is of a source file that was opened
\* before the entry was created.
C9_OpenedBeforeEntry ==
    \A k \in 1..Len(archive) :
        \E j \in 1..Len(opened) :
            opened[j] = [dir |-> archive[k].dir, path |-> archive[k].comment]

\* C9 amended: the archive entry is created before the source file is opened:
\* the j-th file opened is the file of the j-th entry, at most the last entry
\* is of a file not opened yet, and when the open fails the session is aborted
\* with the entry of that record left last in the archive, unwritten.
C9_EntryBeforeOpen ==
    /\ \A j \in 1..Len(opened) :
         /\ j <= Len(archive)
         /\ opened[j] = [dir |-> archive[j].dir, path |-> archive[j].comment]
    /\ Len(archive) <= Len(opened) + 1
    /\ err.wraps = "errFile" =>
         /\ pc = "failed"
         /\ Len(archive) = Len(opened) + 1
         /\ archive[Len(archive)] = [name |-> found[ri].name, comment |-> found[ri].path,
                                     dir |-> di, written |-> FALSE]

\* the open of a symbolic link fails after its entry was created
C9_Witness ==
    /\ pc = "failed"
    /\ err.wraps = "errFile"
    /\ EntryOf(found[ri]).kind = "symlink"
    /\ archive # <<>>
    /\ archive[Len(archive)].comment = found[ri].path
    /\ Len(opened) = Len(archive) - 1

====
